---- MODULE Spec2Model ----
(***************************************************************************)
(* Session / turn state machine of the Nova Sonic voice gateway.           *)
(*                                                                         *)
(*   main.py                 AudioProcessor, NovaSession (watchdog), the   *)
(*                           audio_input branch of websocket_endpoint      *)
(*   nova_sonic_service.py   NovaSonicOfficialClient (the adapter): the    *)
(*                           event stream to the model, the background     *)
(*                           reader, the drain of a turn's result          *)
(*                                                                         *)
(* One connection with one NovaSession is modelled.  Three asyncio tasks   *)
(* run on one event loop: the message loop (pc), the inactivity watchdog   *)
(* (watchdog) and the stream reader (nova.response_task).  A task runs     *)
(* without interruption between two awaits, so an action is the code       *)
(* between two suspension points.  While the message loop is inside        *)
(* process_with_nova the watchdog is cancelled and the reader touches only *)
(* the queues, so the sends of one turn are one action.                    *)
(*                                                                         *)
(* A byte is a natural number.  The client numbers the bytes it sends      *)
(* 1, 2, 3, ... so that loss, duplication and reordering are visible.      *)
(* Sizes are scaled: BUFFER_MAX_SIZE and chunk_size keep their order       *)
(* (chunk_size < BUFFER_MAX_SIZE) but not their values.                    *)
(***************************************************************************)
EXTENDS Integers, Sequences, FiniteSets, TLC

\* ---------------------------------------------------------------- bounds
MaxTurns == 2          \* calls of process_with_nova on the connection
MaxChunks == 1         \* audio_input messages without endOfUtterance
MaxChunkLen == 2       \* bytes in one audio_input message
MaxFaults == 2         \* transport failures (a raising send / open)
MaxModelEvents == 3    \* events the model emits on the stream
MaxWaits == 1          \* empty 0.1 s waits of one drain before its timeout
MaxEnv == 3            \* chunks + transport failures + model events in one run
MaxInits == 2          \* initialize_session messages on the connection

\* ------------------------------------------------------ program constants
BUFFER_MAX_SIZE == 3               \* main.py:87 (100 * 1024), scaled
chunk_size == 2                    \* nova_sonic_service.py:455 (4096), scaled
INACTIVITY_THRESHOLD_MS == 2000    \* main.py:265
WATCHDOG_POLL_MS == 500            \* main.py:290 (asyncio.sleep(0.5))
None == 0                          \* a name that is not set (uuids are >= 1)

INTERRUPTED == "{ \"interrupted\" : true }"   \* nova_sonic_service.py:388

VARIABLES
  \* websocket_endpoint and the registries of main.py
  handler,            \* "new" | "loop" | "finally" | "closed" | "raised"
  active_connections, \* the connection ids registered
  active_sessions,    \* the session ids registered
  session_id,         \* websocket_endpoint's local session_id
  heartbeat_task,     \* "unbound" | "running" | "cancelled"
  now,                \* int(time.time() * 1000) when last read
  inits,              \* initialize_session messages handled so far
  \* websocket_endpoint / NovaSession / AudioProcessor
  pc,             \* message loop: "idle" | "started" | "drain"
  audio_buffer,   \* AudioProcessor.audio_buffer
  has_audio,      \* AudioProcessor.has_audio
  is_listening,   \* NovaSession.is_listening
  watchdog,       \* NovaSession.watchdog_task
  pcm_audio,      \* the audio of the turn in progress
  audio_chunks,   \* process_audio_simple: audio collected by the drain
  text_parts,     \* process_audio_simple: text collected by the drain
  waits,          \* empty waits of the drain in progress
  \* NovaSonicOfficialClient
  nova,           \* the adapter's fields
  audio_queue, text_queue, event_queue,
  uuids,          \* uuid4() values drawn so far
  \* environment and history
  stream,         \* events sent on the current input stream, in send order
  outbound,       \* messages sent to the client, in send order
  utterance,      \* bytes the client sent since the last clear_buffer
  nbytes,         \* bytes the client sent so far
  nchunks,        \* audio_input messages without endOfUtterance so far
  turn_log,       \* one record per process_with_nova call
  faults,         \* transport failures so far
  model_events    \* events the model emitted so far

\* the connection's part of the state
gateway == << handler, active_connections, active_sessions, session_id,
              heartbeat_task, now, inits >>

vars == << handler, active_connections, active_sessions, session_id,
           heartbeat_task, now, inits,
           pc, audio_buffer, has_audio, is_listening, watchdog,
           pcm_audio, audio_chunks, text_parts, waits, nova, audio_queue,
           text_queue, event_queue, uuids, stream, outbound, utterance,
           nbytes, nchunks, turn_log, faults, model_events >>

\* ---------------------------------------------------------------- helpers
Min(a, b) == IF a < b THEN a ELSE b

RECURSIVE Flatten(_)
Flatten(ss) == IF ss = << >> THEN << >> ELSE Head(ss) \o Flatten(Tail(ss))

\* s[-n:] of Python
LastN(s, n) == IF Len(s) <= n THEN s ELSE SubSeq(s, Len(s) - n + 1, Len(s))

\* base64.b64encode: one quantum (4 characters) per 3 bytes, the last one
\* padded; a quantum is modelled by the bytes it carries.
b64encode(bytes) ==
  [i \in 1..((Len(bytes) + 2) \div 3) |->
      SubSeq(bytes, 3 * i - 2, Min(3 * i, Len(bytes)))]

\* base64.b64decode
b64decode(blob) == Flatten(blob)

\* ' '.join(text_parts)
RECURSIVE Join(_)
Join(parts) ==
  IF parts = << >> THEN << >>
  ELSE IF Len(parts) = 1 THEN Head(parts)
  ELSE Head(parts) \o << " " >> \o Join(Tail(parts))

\* '{ "interrupted" : true }' in text   (a text is a sequence of fragments)
ContainsMarker(text) == \E i \in 1..Len(text) : text[i] = INTERRUPTED

\* ------------------------------------------------ events sent to the model
Event(ev, prompt, content, kind, data) ==
  [ev |-> ev, prompt |-> prompt, content |-> content, kind |-> kind, data |-> data]

SessionStart == Event("sessionStart", None, None, "", << >>)
PromptStart(p) == Event("promptStart", p, None, "", << >>)
ContentStart(p, c, kind) == Event("contentStart", p, c, kind, << >>)
TextInput(p, c) == Event("textInput", p, c, "TEXT", << >>)
AudioInputEvent(p, c, blob) == Event("audioInput", p, c, "AUDIO", blob)
ContentEnd(p, c) == Event("contentEnd", p, c, "", << >>)
PromptEnd(p) == Event("promptEnd", p, None, "", << >>)
SessionEnd == Event("sessionEnd", None, None, "", << >>)

\* ------------------------------------------------------------ the adapter
\* The adapter's operations are functions of a machine X: the adapter's
\* fields, the stream, the uuid counter, and the exception state of the
\* running coroutine.  X.fuel is the number of awaits of the SDK that still
\* succeed; the next one raises.  A send that raises delivers nothing.

\* NovaSonicOfficialClient.__init__
NewClient ==
  [client |-> FALSE, is_active |-> FALSE, response_task |-> "none",
   session_id |-> None, prompt_name |-> None, content_name |-> None,
   audio_content_name |-> None, role |-> "None", content_open |-> FALSE,
   prompt_starts |-> 0, prompt_ends |-> 0,
   content_starts |-> 0, content_ends |-> 0]

Machine(fuel) ==
  [nova |-> nova, stream |-> stream, uuids |-> uuids,
   fuel |-> fuel, raised |-> FALSE, ok |-> TRUE]

\* an await of the SDK that may raise and sends nothing
Await(X) ==
  IF X.raised THEN X
  ELSE IF X.fuel = 0 THEN [X EXCEPT !.raised = TRUE]
  ELSE [X EXCEPT !.fuel = @ - 1]

send_event(X, ev) ==
  IF X.raised THEN X
  ELSE IF X.fuel = 0 THEN [X EXCEPT !.raised = TRUE]
  ELSE [X EXCEPT !.stream = Append(@, ev), !.fuel = @ - 1]

\* a statement that runs only if no exception is propagating
Do(X, Y) == IF X.raised THEN X ELSE Y

initialize_client(X) ==
  LET X1 == Await(X) IN Do(X1, [X1 EXCEPT !.nova.client = TRUE])

\* start_session with promptStart sent ahead of sessionStart
start_session_prompt_first(X) ==
  LET X0 == [X EXCEPT !.nova.session_id = X.uuids + 1,
                      !.nova.prompt_name = X.uuids + 2,
                      !.nova.content_name = X.uuids + 3,
                      !.nova.audio_content_name = X.uuids + 4,
                      !.uuids = @ + 4]
      X1 == IF X0.nova.client THEN X0 ELSE initialize_client(X0)
      X2 == Await(X1)
      X3 == Do(X2, [X2 EXCEPT !.stream = << >>, !.nova.is_active = TRUE])
      p  == X0.nova.prompt_name
      c  == X0.nova.content_name
      X4 == send_event(X3, PromptStart(p))
      X5 == Do(X4, [X4 EXCEPT !.nova.prompt_starts = @ + 1])
      X6 == send_event(X5, SessionStart)
      X7 == send_event(X6, ContentStart(p, c, "TEXT"))
      X8 == send_event(X7, TextInput(p, c))
      X9 == send_event(X8, ContentEnd(p, c))
      X10 == Do(X9, [X9 EXCEPT !.nova.response_task = "running"])
  IN  IF X10.raised
      THEN [X10 EXCEPT !.nova.is_active = FALSE, !.raised = FALSE, !.ok = FALSE]
      ELSE [X10 EXCEPT !.ok = TRUE]

\* start_session with the reader spawned as soon as the stream is open
start_session_spawns_reader_first(X) ==
  LET X0 == [X EXCEPT !.nova.session_id = X.uuids + 1,
                      !.nova.prompt_name = X.uuids + 2,
                      !.nova.content_name = X.uuids + 3,
                      !.nova.audio_content_name = X.uuids + 4,
                      !.uuids = @ + 4]
      X1 == IF X0.nova.client THEN X0 ELSE initialize_client(X0)
      X2 == Await(X1)
      X3 == Do(X2, [X2 EXCEPT !.stream = << >>, !.nova.is_active = TRUE,
                              !.nova.response_task = "running"])
      p  == X0.nova.prompt_name
      c  == X0.nova.content_name
      X4 == send_event(X3, SessionStart)
      X5 == send_event(X4, PromptStart(p))
      X6 == Do(X5, [X5 EXCEPT !.nova.prompt_starts = @ + 1])
      X7 == send_event(X6, ContentStart(p, c, "TEXT"))
      X8 == send_event(X7, TextInput(p, c))
      X9 == send_event(X8, ContentEnd(p, c))
  IN  IF X9.raised
      THEN [X9 EXCEPT !.nova.is_active = FALSE, !.raised = FALSE, !.ok = FALSE]
      ELSE [X9 EXCEPT !.ok = TRUE]

\* NovaSonicOfficialClient.start_session; ok is what it returns
start_session(X) ==
  LET X0 == [X EXCEPT !.nova.session_id = X.uuids + 1,
                      !.nova.prompt_name = X.uuids + 2,
                      !.nova.content_name = X.uuids + 3,
                      !.nova.audio_content_name = X.uuids + 4,
                      !.uuids = @ + 4]
      X1 == IF X0.nova.client THEN X0 ELSE initialize_client(X0)
      \* invoke_model_with_bidirectional_stream: a new, empty stream
      X2 == Await(X1)
      X3 == Do(X2, [X2 EXCEPT !.stream = << >>, !.nova.is_active = TRUE])
      p  == X0.nova.prompt_name
      c  == X0.nova.content_name
      X4 == send_event(X3, SessionStart)
      X5 == send_event(X4, PromptStart(p))
      X6 == Do(X5, [X5 EXCEPT !.nova.prompt_starts = @ + 1])
      X7 == send_event(X6, ContentStart(p, c, "TEXT"))
      X8 == send_event(X7, TextInput(p, c))
      X9 == send_event(X8, ContentEnd(p, c))
      X10 == Do(X9, [X9 EXCEPT !.nova.response_task = "running"])
  IN  IF X10.raised
      THEN [X10 EXCEPT !.nova.is_active = FALSE, !.raised = FALSE, !.ok = FALSE]
      ELSE [X10 EXCEPT !.ok = TRUE]

\* end_audio_input without line 351: content_open is left set
end_audio_input_keeps_open(X) ==
  IF X.raised THEN X
  ELSE IF X.nova.prompt_name = None \/ X.nova.audio_content_name = None THEN X
  ELSE
    LET closing_prompt == X.nova.prompt_name
        closing_content == X.nova.audio_content_name
        X1 == send_event(X, ContentEnd(closing_prompt, closing_content))
        X2 == Do(X1, [X1 EXCEPT !.nova.content_ends = @ + 1])
        X3 == send_event(X2, PromptEnd(closing_prompt))
    IN  Do(X3, [X3 EXCEPT !.nova.prompt_ends = @ + 1,
                          !.nova.audio_content_name = None])

end_audio_input(X) ==
  IF X.raised THEN X
  ELSE IF X.nova.prompt_name = None \/ X.nova.audio_content_name = None THEN X
  ELSE
    LET closing_prompt == X.nova.prompt_name
        closing_content == X.nova.audio_content_name
        X1 == send_event(X, ContentEnd(closing_prompt, closing_content))
        X2 == Do(X1, [X1 EXCEPT !.nova.content_ends = @ + 1])
        X3 == send_event(X2, PromptEnd(closing_prompt))
    IN  Do(X3, [X3 EXCEPT !.nova.prompt_ends = @ + 1,
                          !.nova.audio_content_name = None,
                          !.nova.content_open = FALSE])

\* NovaSonicOfficialClient.end_session.  The except clause logs and
\* returns: is_active and the reader are left as they were.
end_session(X) ==
  IF ~X.nova.is_active THEN X
  ELSE
    LET X1 == send_event(X, PromptEnd(X.nova.prompt_name))
        X2 == send_event(X1, SessionEnd)
        \* stream.input_stream.close()
        X3 == Await(X2)
        X4 == Do(X3, [X3 EXCEPT !.nova.response_task =
                                   IF @ = "running" THEN "cancelled" ELSE @,
                                 !.nova.is_active = FALSE])
    IN  IF X4.raised
        THEN [X4 EXCEPT !.raised = FALSE, !.ok = FALSE]
        ELSE X4

\* start_audio_input without lines 252-255: an open content is not closed
start_audio_input_no_close(X) ==
  LET X2 == Do(X, [X EXCEPT !.nova.audio_content_name = X.uuids + 1,
                            !.uuids = @ + 1])
      X3 == send_event(X2, ContentStart(X2.nova.prompt_name,
                                        X2.nova.audio_content_name, "AUDIO"))
  IN  Do(X3, [X3 EXCEPT !.nova.content_open = TRUE,
                        !.nova.content_starts = @ + 1])

start_audio_input(X) ==
  LET X1 == IF X.nova.content_open THEN end_audio_input(X) ELSE X
      X2 == Do(X1, [X1 EXCEPT !.nova.audio_content_name = X1.uuids + 1,
                              !.uuids = @ + 1])
      X3 == send_event(X2, ContentStart(X2.nova.prompt_name,
                                        X2.nova.audio_content_name, "AUDIO"))
  IN  Do(X3, [X3 EXCEPT !.nova.content_open = TRUE,
                        !.nova.content_starts = @ + 1])

\* send_audio_chunk without the guards of lines 285-291
send_audio_chunk_unguarded(X, audio_bytes) ==
  send_event(X, AudioInputEvent(X.nova.prompt_name,
                                X.nova.audio_content_name,
                                b64encode(audio_bytes)))

send_audio_chunk(X, audio_bytes) ==
  IF X.raised THEN X
  ELSE IF ~X.nova.is_active THEN X
  ELSE IF ~X.nova.content_open \/ X.nova.audio_content_name = None THEN X
  ELSE send_event(X, AudioInputEvent(X.nova.prompt_name,
                                     X.nova.audio_content_name,
                                     b64encode(audio_bytes)))

\* process_audio_simple, lines 453-459: for i in range(0, len, chunk_size)
RECURSIVE SendChunks(_, _)
SendChunks(X, audio_data) ==
  IF audio_data = << >> THEN X
  ELSE LET k == Min(chunk_size, Len(audio_data))
       IN  SendChunks(send_audio_chunk(X, SubSeq(audio_data, 1, k)),
                      SubSeq(audio_data, k + 1, Len(audio_data)))

\* open and send without the close of line 462
SendTurn_no_close(X, audio_data) ==
  SendChunks(start_audio_input(X), audio_data)

\* process_audio_simple, lines 450-462: open, send, close
SendTurn(X, audio_data) ==
  end_audio_input(SendChunks(start_audio_input(X), audio_data))

\* the results of process_audio_simple
ErrorResult(err) ==
  [success |-> FALSE, error |-> err, audio |-> << >>, text |-> << >>,
   mode |-> "none"]

\* a combination that reports success whatever was collected
CombineResults_always_ok(chunks, parts) ==
  [success |-> TRUE, error |-> "", audio |-> Flatten(chunks),
   text |-> Join(parts), mode |-> "bidirectional_stream"]

\* process_audio_simple, lines 501-523
CombineResults(chunks, parts) ==
  LET combined_audio == Flatten(chunks)
      combined_text == Join(parts)
  IN  IF combined_audio # << >> \/ combined_text # << >>
      THEN [success |-> TRUE, error |-> "", audio |-> combined_audio,
            text |-> combined_text, mode |-> "bidirectional_stream"]
      ELSE ErrorResult("No response received from BIDIRECTIONAL stream")

\* ------------------------------------------------- main.py: the session
\* a buffer that, past its cap, keeps the oldest bytes
add_audio_keep_oldest(buffer, audio_data) ==
  LET extended == IF audio_data # << >> THEN buffer \o audio_data ELSE buffer
  IN  SubSeq(extended, 1, Min(Len(extended), BUFFER_MAX_SIZE))

\* add_audio without the cap of lines 225-226
add_audio_unbounded(buffer, audio_data) ==
  IF audio_data # << >> THEN buffer \o audio_data ELSE buffer

\* AudioProcessor.add_audio
add_audio(buffer, audio_data) ==
  LET extended == IF audio_data # << >> THEN buffer \o audio_data ELSE buffer
  IN  IF Len(extended) > BUFFER_MAX_SIZE
      THEN LastN(extended, BUFFER_MAX_SIZE)
      ELSE extended

\* a clear_buffer that leaves the buffer as it is
clear_buffer_keeps(buffer) == buffer

\* AudioProcessor.clear_buffer: what is left in the buffer (the bytes it
\* returns are the buffer as it was)
clear_buffer(buffer) == << >>

\* AudioProcessor.convert_to_pcm_16khz: returns its input
convert_to_pcm_16khz(audio_data) == audio_data

\* a process_with_nova that reports success whatever the adapter returned
process_with_nova_always_ok(result) ==
  [success |-> TRUE, error |-> "", audio |-> result.audio, text |-> result.text]

\* process_with_nova, lines 336-361: what it returns for the adapter's result
process_with_nova(result) ==
  IF result.mode # "bidirectional_stream"
  THEN [success |-> FALSE, error |-> "Must use bidirectional_stream mode",
        audio |-> << >>, text |-> << >>]
  ELSE IF result.success
  THEN [success |-> TRUE, error |-> "", audio |-> result.audio,
        text |-> result.text]
  ELSE [success |-> FALSE, error |-> result.error, audio |-> << >>,
        text |-> << >>]

\* websocket_endpoint, lines 510-536: the messages sent for a result
Message(type, payload, turn) == [type |-> type, payload |-> payload, turn |-> turn]

\* the transcript sent before the audio
Dispatch_transcript_first(result, turn) ==
  IF result.success
  THEN (IF result.text # << >>
        THEN << Message("transcript", result.text, turn) >>
        ELSE << >>)
       \o (IF result.audio # << >>
           THEN << Message("audio_output", b64encode(result.audio), turn) >>
           ELSE << >>)
       \o << Message("inference_complete", << >>, turn) >>
  ELSE << Message("error", << result.error >>, turn) >>

Dispatch(result, turn) ==
  IF result.success
  THEN (IF result.audio # << >>
        THEN << Message("audio_output", b64encode(result.audio), turn) >>
        ELSE << >>)
       \o (IF result.text # << >>
           THEN << Message("transcript", result.text, turn) >>
           ELSE << >>)
       \o << Message("inference_complete", << >>, turn) >>
  ELSE << Message("error", << result.error >>, turn) >>

\* ------------------------------------------------------------------ Init
\* the one connection that is modelled
connection_id == 1

\* NovaSession.__init__ with its AudioProcessor and adapter
NewSession ==
  /\ pc = "idle"
  /\ audio_buffer = << >>
  /\ has_audio = FALSE
  /\ is_listening = FALSE
  /\ watchdog = "none"
  /\ pcm_audio = << >>
  /\ audio_chunks = << >>
  /\ text_parts = << >>
  /\ waits = 0
  /\ nova = NewClient
  /\ audio_queue = << >>
  /\ text_queue = << >>
  /\ event_queue = << >>
  /\ utterance = << >>

\* The state after NovaSession.__init__ on an accepted connection: the
\* first initialize_session of the connection was handled and succeeded.
Init ==
  /\ handler = "loop"
  /\ active_connections = {connection_id}
  /\ active_sessions = {1}
  /\ session_id = 1
  /\ heartbeat_task = "running"
  /\ now = 1
  /\ inits = 1
  /\ pc = "idle"
  /\ audio_buffer = << >>
  /\ has_audio = FALSE
  /\ is_listening = FALSE
  /\ watchdog = "none"
  /\ pcm_audio = << >>
  /\ audio_chunks = << >>
  /\ text_parts = << >>
  /\ waits = 0
  /\ nova = NewClient
  /\ audio_queue = << >>
  /\ text_queue = << >>
  /\ event_queue = << >>
  /\ uuids = 0
  /\ stream = << >>
  /\ outbound = << >>
  /\ utterance = << >>
  /\ nbytes = 0
  /\ nchunks = 0
  /\ turn_log = << >>
  /\ faults = 0
  /\ model_events = 0

\* ------------------------------------------------- what the world may do
\* The environment's moves (a chunk from the client, a transport failure, an
\* event from the model) made so far; a run has at most MaxEnv of them.
Spent ==
  nchunks + faults + model_events + (IF inits > 1 THEN inits - 1 ELSE 0)

\* --------------------------------------------------- transport failures
\* More awaits than one action makes: with this much fuel nothing raises.
NoFault == BUFFER_MAX_SIZE + 8

\* The awaits of the SDK a coroutine made, X being what it left of a
\* machine started with NoFault.
Awaits(X) == NoFault - X.fuel

\* The fuel a coroutine that makes n awaits may run with: no failure, or
\* (while failures remain in the budget) a failure at any of its awaits.
Fuels(n) ==
  {NoFault} \cup (IF faults < MaxFaults /\ Spent < MaxEnv
                  THEN 0..(n - 1)
                  ELSE {})

Faulted(X) == X.raised \/ ~X.ok

\* ------------------------------------------------------- the turn's log
NoResult == [success |-> FALSE, error |-> "pending", audio |-> << >>, text |-> << >>]

\* utt: the bytes the client sent since the last clear_buffer;
\* audio: the bytes handed to process_with_nova;
\* from, to: the events stream[from..to] are those the turn sent;
\* since: the first event sent after the turn before this one returned;
\* sent: every send of the turn succeeded (the turn reached its drain);
\* done: process_with_nova returned; result: what it returned.
LogEntry(utt, audio, from, since) ==
  [utt |-> utt, audio |-> audio, from |-> from, since |-> since, to |-> from - 1,
   sent |-> FALSE, done |-> FALSE, result |-> NoResult]

CurrentTurn == Len(turn_log)

\* process_audio_simple raised or returned: process_with_nova returns and
\* websocket_endpoint sends the turn's messages.
Returned(result) ==
  LET r == process_with_nova(result)
  IN  /\ outbound' = outbound \o Dispatch(r, CurrentTurn)
      /\ turn_log' = [turn_log EXCEPT ![CurrentTurn].done = TRUE,
                                      ![CurrentTurn].result = r]
      /\ pc' = "idle"
      /\ pcm_audio' = << >>
      /\ audio_chunks' = << >>
      /\ text_parts' = << >>
      /\ waits' = 0

\* process_audio_simple, lines 444-462, with X the machine it runs on:
\* clear the queues, open, send, close; then the drain begins, or the
\* except clause returns the error.
RunTurn(X0, audio_data, log) ==
  LET X == SendTurn(X0, audio_data)
  IN  /\ nova' = X.nova
      /\ stream' = X.stream
      /\ uuids' = X.uuids
      /\ faults' = faults + (IF Faulted(X) \/ Faulted(X0) THEN 1 ELSE 0)
      /\ audio_queue' = << >>
      /\ text_queue' = << >>
      /\ UNCHANGED event_queue
      /\ IF X.raised
         THEN LET r == process_with_nova(ErrorResult("exception"))
              IN  /\ outbound' = outbound \o Dispatch(r, Len(log))
                  /\ turn_log' = [log EXCEPT ![Len(log)].to = Len(X.stream),
                                             ![Len(log)].done = TRUE,
                                             ![Len(log)].result = r]
                  /\ pc' = "idle"
                  /\ pcm_audio' = << >>
         ELSE /\ outbound' = outbound
              /\ turn_log' = [log EXCEPT ![Len(log)].to = Len(X.stream),
                                         ![Len(log)].sent = TRUE]
              /\ pc' = "drain"
              /\ pcm_audio' = audio_data
      /\ audio_chunks' = << >>
      /\ text_parts' = << >>
      /\ waits' = 0

\* ------------------------------------------------------ the message loop
\* a test that lets an empty buffer through
HasAudio_always(accumulated_audio) == TRUE

\* websocket_endpoint, line 504: if accumulated_audio
HasAudio(accumulated_audio) == accumulated_audio # << >>

\* a stop_listening that leaves the watchdog task running
stop_listening_no_cancel(watchdog_task) == watchdog_task

\* NovaSession.stop_listening: what becomes of the watchdog task.  A task
\* that is cancelled gets CancelledError at the await it is suspended in: it
\* runs no further statement of its loop.
stop_listening(watchdog_task) ==
  IF watchdog_task = "none" THEN "none" ELSE "done"

\* websocket_endpoint, the audio_input branch (lines 473-538), for a message
\* with n bytes of audio and the endOfUtterance flag, up to the first await
\* that lets another task run.
AudioInput(n, end_of_utterance) ==
  /\ UNCHANGED gateway
  /\ handler = "loop"
  /\ session_id # None
  /\ pc = "idle"
  /\ end_of_utterance \/ (nchunks < MaxChunks /\ Spent < MaxEnv)
  /\ n > 0 \/ end_of_utterance
  /\ LET audioData == b64encode([i \in 1..n |-> nbytes + i])
         audio_data == b64decode(audioData)
         got == audio_data # << >>
         \* lines 485-495
         buffer1 == IF got THEN add_audio(audio_buffer, audio_data) ELSE audio_buffer
         \* start_listening
         starts == got /\ ~is_listening
         listening1 == is_listening \/ got
         watchdog1 == IF starts /\ watchdog \in {"none", "done"}
                      THEN "sleeping" ELSE watchdog
         utterance1 == utterance \o audio_data
         \* line 502
         accumulated_audio == buffer1
         pcm == convert_to_pcm_16khz(accumulated_audio)
         \* process_audio_simple up to its first sleep
         Process(X) == IF ~nova.is_active THEN start_session(X) ELSE SendTurn(X, pcm)
     IN  /\ nchunks' = nchunks + (IF end_of_utterance THEN 0 ELSE 1)
         /\ nbytes' = nbytes + n
         /\ has_audio' = (has_audio \/ got)
         /\ IF ~end_of_utterance
            THEN /\ audio_buffer' = buffer1
                 /\ is_listening' = listening1
                 /\ watchdog' = watchdog1
                 /\ utterance' = utterance1
                 /\ UNCHANGED << pc, pcm_audio, audio_chunks, text_parts, waits,
                                 nova, audio_queue, text_queue, event_queue,
                                 uuids, stream, outbound, turn_log, faults >>
            ELSE IF ~HasAudio(accumulated_audio)
            THEN \* "No audio data to process"
                 /\ audio_buffer' = clear_buffer(buffer1)
                 /\ is_listening' = listening1
                 /\ watchdog' = watchdog1
                 /\ utterance' = << >>
                 /\ UNCHANGED << pc, pcm_audio, audio_chunks, text_parts, waits,
                                 nova, audio_queue, text_queue, event_queue,
                                 uuids, stream, outbound, turn_log, faults >>
            ELSE \* process_with_nova: stop_listening, then process_audio_simple
                 /\ Len(turn_log) < MaxTurns
                 /\ audio_buffer' = clear_buffer(buffer1)
                 /\ utterance' = << >>
                 /\ is_listening' = FALSE
                 /\ watchdog' = stop_listening(watchdog1)
                 /\ \E fuel \in Fuels(Awaits(Process(Machine(NoFault)))),
                       delivered \in (IF watchdog1 \in {"send_content_end", "send_prompt_end"}
                                      THEN BOOLEAN ELSE {FALSE}) :
                      LET
                          \* a send of the watchdog in flight when it is cancelled
                          inflight ==
                            IF ~delivered THEN << >>
                            ELSE IF watchdog1 = "send_content_end"
                            THEN << ContentEnd(nova.prompt_name, nova.audio_content_name) >>
                            ELSE IF watchdog1 = "send_prompt_end"
                            THEN << PromptEnd(nova.prompt_name) >>
                            ELSE << >>
                          M == [Machine(fuel) EXCEPT !.stream = @ \o inflight]
                      IN  IF ~nova.is_active
                          THEN LET X == start_session(M)
                                   log == Append(turn_log, LogEntry(utterance1, pcm, 1, 1))
                               IN  IF X.ok
                                   THEN \* asyncio.sleep(0.5)
                                        /\ nova' = X.nova
                                        /\ stream' = X.stream
                                        /\ uuids' = X.uuids
                                        /\ turn_log' = log
                                        /\ pc' = "started"
                                        /\ pcm_audio' = pcm
                                        /\ UNCHANGED << audio_chunks, text_parts, waits,
                                                        audio_queue, text_queue, event_queue,
                                                        outbound, faults >>
                                   ELSE \* "Failed to start BIDIRECTIONAL session"
                                        LET r == process_with_nova(ErrorResult("exception"))
                                        IN  /\ nova' = X.nova
                                            /\ stream' = X.stream
                                            /\ uuids' = X.uuids
                                            /\ faults' = faults + 1
                                            /\ outbound' = outbound \o Dispatch(r, Len(log))
                                            /\ turn_log' = [log EXCEPT ![Len(log)].to = Len(X.stream),
                                                                       ![Len(log)].done = TRUE,
                                                                       ![Len(log)].result = r]
                                            /\ UNCHANGED << pc, pcm_audio, audio_chunks, text_parts,
                                                            waits, audio_queue, text_queue,
                                                            event_queue >>
                          ELSE RunTurn(M, pcm,
                                       Append(turn_log,
                                              LogEntry(utterance1, pcm, Len(M.stream) + 1,
                                                       IF turn_log = << >> THEN 1
                                                       ELSE turn_log[Len(turn_log)].to + 1)))
  /\ UNCHANGED model_events

\* process_audio_simple after the sleep that follows start_session
AfterStart ==
  /\ UNCHANGED gateway
  /\ pc = "started"
  /\ \E fuel \in Fuels(Awaits(SendTurn(Machine(NoFault), pcm_audio))) :
       RunTurn(Machine(fuel), pcm_audio,
               [turn_log EXCEPT ![CurrentTurn].from = Len(stream) + 1])
  /\ UNCHANGED << audio_buffer, has_audio, is_listening, watchdog,
                  utterance, nbytes, nchunks, model_events >>

\* ------------------------------------------------------------- the drain
\* process_audio_simple, lines 487-494: only ASSISTANT text is kept
RECURSIVE AssistantTexts(_)
AssistantTexts(queue) ==
  IF queue = << >> THEN << >>
  ELSE (IF Head(queue).role = "ASSISTANT" THEN << Head(queue).text >> ELSE << >>)
       \o AssistantTexts(Tail(queue))

\* lines 479-499: empty both queues into the locals; with audio and text
\* both present the loop ends (the 0.5 s sleep reads nothing more).
Collect ==
  LET chunks == audio_chunks \o audio_queue
      parts == text_parts \o AssistantTexts(text_queue)
  IN  /\ audio_queue' = << >>
      /\ text_queue' = << >>
      /\ IF chunks # << >> /\ parts # << >>
         THEN Returned(CombineResults(chunks, parts))
         ELSE /\ audio_chunks' = chunks
              /\ text_parts' = parts
              /\ UNCHANGED << pc, pcm_audio, outbound, turn_log, waits >>

\* one iteration whose event_queue.get() returns at once
DrainEvent ==
  /\ UNCHANGED gateway
  /\ pc = "drain"
  /\ event_queue # << >>
  /\ event_queue' = Tail(event_queue)
  /\ IF Head(event_queue).type = "completion"
     THEN /\ Returned(CombineResults(audio_chunks, text_parts))
          /\ UNCHANGED << audio_queue, text_queue >>
     ELSE Collect
  /\ UNCHANGED << audio_buffer, has_audio, is_listening, watchdog,
                  nova, uuids, stream, utterance, nbytes, nchunks, faults,
                  model_events >>

\* one iteration whose event_queue.get() times out after 0.1 s
DrainWait ==
  /\ UNCHANGED gateway
  /\ pc = "drain"
  /\ event_queue = << >>
  /\ waits < MaxWaits
  /\ LET chunks == audio_chunks \o audio_queue
         parts == text_parts \o AssistantTexts(text_queue)
     IN  /\ audio_queue' = << >>
         /\ text_queue' = << >>
         /\ IF chunks # << >> /\ parts # << >>
            THEN Returned(CombineResults(chunks, parts))
            ELSE /\ audio_chunks' = chunks
                 /\ text_parts' = parts
                 /\ waits' = waits + 1
                 /\ UNCHANGED << pc, pcm_audio, outbound, turn_log >>
  /\ UNCHANGED << audio_buffer, has_audio, is_listening, watchdog,
                  nova, event_queue, uuids, stream, utterance, nbytes, nchunks,
                  faults, model_events >>

\* a loop that ends on its timeout only once something was collected
DrainTimeout_needs_output ==
  /\ UNCHANGED gateway
  /\ pc = "drain"
  /\ waits >= 1
  /\ audio_chunks # << >>
  /\ Returned(CombineResults(audio_chunks, text_parts))
  /\ UNCHANGED << audio_buffer, has_audio, is_listening, watchdog,
                  nova, audio_queue, text_queue, event_queue, uuids, stream,
                  utterance, nbytes, nchunks, faults, model_events >>

\* the loop condition fails: 15 s have passed since the turn was closed
DrainTimeout ==
  /\ UNCHANGED gateway
  /\ pc = "drain"
  /\ waits >= 1
  /\ Returned(CombineResults(audio_chunks, text_parts))
  /\ UNCHANGED << audio_buffer, has_audio, is_listening, watchdog,
                  nova, audio_queue, text_queue, event_queue, uuids, stream,
                  utterance, nbytes, nchunks, faults, model_events >>

\* ------------------------------------------------------------ the reader
Roles == {"USER", "ASSISTANT"}
Texts == { << >>, << "hola" >>, << "hola", INTERRUPTED >> }

\* What the model may emit next, as (kind, role, text, audio content).
ModelEvents ==
  { [kind |-> "contentStart", role |-> r, text |-> << >>, content |-> << >>] : r \in Roles }
  \cup
  { [kind |-> "textOutput", role |-> "", text |-> t, content |-> << >>] : t \in Texts }
  \cup
  { [kind |-> "audioOutput", role |-> "", text |-> << >>, content |-> c] :
      c \in { << >>, b64encode(<< model_events + 1 >>) } }
  \cup
  { [kind |-> k, role |-> "", text |-> << >>, content |-> << >>] :
      k \in {"contentEnd", "completionEnd"} }

\* The reader writes only role and the queues, and only process_audio_simple
\* reads them: a step of the reader commutes with the handling of a chunk
\* and with the watchdog.  What the reader does while the message loop is
\* idle is therefore placed before the next chunk is handled.
ReaderScheduled == pc # "idle" \/ (~is_listening /\ utterance = << >>)

\* an item of event_queue; seq, the number of the model's event that caused
\* it, is history: nothing reads it
ControlEvent(type) == [type |-> type, seq |-> model_events + 1]

\* _process_responses: one event of the stream's output.  A queued text
\* carries, besides role and text, the number of its event as history.
ReadResponse ==
  /\ UNCHANGED gateway
  /\ nova.response_task = "running"
  /\ nova.is_active
  /\ ReaderScheduled
  /\ model_events < MaxModelEvents
  /\ Spent < MaxEnv
  /\ model_events' = model_events + 1
  /\ \E e \in ModelEvents :
       /\ nova' = IF e.kind = "contentStart" THEN [nova EXCEPT !.role = e.role] ELSE nova
       /\ text_queue' = IF e.kind = "textOutput"
                        THEN Append(text_queue, [role |-> nova.role, text |-> e.text,
                                                 seq |-> model_events + 1])
                        ELSE text_queue
       /\ audio_queue' = IF e.kind = "audioOutput" /\ e.content # << >>
                         THEN Append(audio_queue, b64decode(e.content))
                         ELSE audio_queue
       /\ event_queue' =
            CASE e.kind = "textOutput" /\ ContainsMarker(e.text)
                   -> Append(event_queue, ControlEvent("barge_in"))
              [] e.kind = "contentEnd"
                   -> Append(event_queue, ControlEvent("content_end"))
              [] e.kind = "completionEnd"
                   -> Append(event_queue, ControlEvent("completion"))
              [] OTHER -> event_queue
  /\ UNCHANGED << pc, audio_buffer, has_audio, is_listening, watchdog,
                  pcm_audio, audio_chunks, text_parts, waits, uuids, stream,
                  outbound, utterance, nbytes, nchunks, turn_log, faults >>

\* _process_responses: reading the stream raises; the task logs and ends
ReaderFail ==
  /\ UNCHANGED gateway
  /\ nova.response_task = "running"
  /\ nova.is_active
  /\ faults < MaxFaults
  /\ Spent < MaxEnv
  /\ faults' = faults + 1
  /\ nova' = [nova EXCEPT !.response_task = "dead"]
  /\ UNCHANGED << pc, audio_buffer, has_audio, is_listening, watchdog,
                  pcm_audio, audio_chunks, text_parts, waits, audio_queue,
                  text_queue, event_queue, uuids, stream, outbound, utterance,
                  nbytes, nchunks, turn_log, model_events >>

\* ---------------------------------------------------------- the watchdog
\* elapsed_ms, utcnow() - last_activity, when the watchdog wakes.  The clock
\* is the environment's and last_activity is read nowhere else, so the
\* elapsed time is drawn at each poll: either side of the threshold.
Elapsed == {WATCHDOG_POLL_MS, INACTIVITY_THRESHOLD_MS + WATCHDOG_POLL_MS}

\* inactivity_watchdog: the sleep of 0.5 s ends and the elapsed time is
\* checked.  On a timeout end_audio_input runs up to its first send.
WatchdogPoll ==
  /\ UNCHANGED gateway
  /\ watchdog = "sleeping"
  /\ \E elapsed \in Elapsed :
         /\ IF elapsed > INACTIVITY_THRESHOLD_MS /\ is_listening
            THEN IF nova.is_active /\ nova.prompt_name # None
                    /\ nova.audio_content_name # None
                 THEN /\ watchdog' = "send_content_end"
                      /\ UNCHANGED is_listening
                 ELSE /\ watchdog' = "done"
                      /\ is_listening' = FALSE
            ELSE /\ watchdog' = IF is_listening THEN "sleeping" ELSE "done"
                 /\ UNCHANGED is_listening
  /\ UNCHANGED << pc, audio_buffer, has_audio, pcm_audio, audio_chunks,
                  text_parts, waits, nova, audio_queue, text_queue, event_queue,
                  uuids, stream, outbound, utterance, nbytes, nchunks, turn_log,
                  faults, model_events >>

\* end_audio_input in the watchdog: the send of contentEnd returns (lines
\* 325-338) or raises (the watchdog's except clause, line 307)
WatchdogContentEnd ==
  /\ UNCHANGED gateway
  /\ watchdog = "send_content_end"
  /\ \E fuel \in Fuels(1) :
       LET X == send_event(Machine(fuel),
                           ContentEnd(nova.prompt_name, nova.audio_content_name))
       IN  IF X.raised
           THEN /\ watchdog' = "done"
                /\ faults' = faults + 1
                /\ UNCHANGED << nova, stream >>
           ELSE /\ watchdog' = "send_prompt_end"
                /\ stream' = X.stream
                /\ nova' = [nova EXCEPT !.content_ends = @ + 1]
                /\ UNCHANGED faults
  /\ UNCHANGED << pc, audio_buffer, has_audio, is_listening,
                  pcm_audio, audio_chunks, text_parts, waits, audio_queue,
                  text_queue, event_queue, uuids, outbound, utterance, nbytes,
                  nchunks, turn_log, model_events >>

\* end_audio_input in the watchdog: the send of promptEnd returns (lines
\* 338-352, then main.py 302-303) or raises
WatchdogPromptEnd ==
  /\ UNCHANGED gateway
  /\ watchdog = "send_prompt_end"
  /\ \E fuel \in Fuels(1) :
       LET X == send_event(Machine(fuel), PromptEnd(nova.prompt_name))
       IN  IF X.raised
           THEN /\ faults' = faults + 1
                /\ UNCHANGED << nova, stream, is_listening >>
           ELSE /\ stream' = X.stream
                /\ nova' = [nova EXCEPT !.prompt_ends = @ + 1,
                                        !.audio_content_name = None,
                                        !.content_open = FALSE]
                /\ is_listening' = FALSE
                /\ UNCHANGED faults
  /\ watchdog' = "done"
  /\ UNCHANGED << pc, audio_buffer, has_audio, pcm_audio,
                  audio_chunks, text_parts, waits, audio_queue, text_queue,
                  event_queue, uuids, outbound, utterance, nbytes, nchunks,
                  turn_log, model_events >>

\* ------------------------------------------------------ the specification
Next ==
  \/ \E n \in 0..MaxChunkLen, end_of_utterance \in BOOLEAN :
       AudioInput(n, end_of_utterance)
  \/ AfterStart
  \/ DrainEvent
  \/ DrainWait
  \/ DrainTimeout
  \/ ReadResponse
  \/ ReaderFail
  \/ WatchdogPoll
  \/ WatchdogContentEnd
  \/ WatchdogPromptEnd

Spec == Init /\ [][Next]_vars

\* One iteration of the collect loop of process_audio_simple, or its end.
DrainStep ==
  \/ DrainEvent
  \/ DrainWait
  \/ DrainTimeout

\* The event loop's timers fire: wait_for(event_queue.get(), timeout=0.1)
\* returns, and the clock that the loop condition reads advances; so the
\* coroutine, while in the collect loop, goes on taking its steps.
DrainFairness == WF_vars(DrainStep)

LiveSpec == Spec /\ DrainFairness

\* ------------------------------------------- the adapter's end_session
\* A caller of the adapter ends the session between two messages of the
\* client.  (websocket_endpoint itself never does.)
AdapterEndSession ==
  /\ UNCHANGED gateway
  /\ pc = "idle"
  /\ nova.is_active
  /\ \E fuel \in Fuels(Awaits(end_session(Machine(NoFault)))) :
       LET X == end_session(Machine(fuel))
       IN  /\ nova' = X.nova
           /\ stream' = X.stream
           /\ faults' = faults + (IF Faulted(X) THEN 1 ELSE 0)
  /\ UNCHANGED << pc, audio_buffer, has_audio, is_listening, watchdog,
                  pcm_audio, audio_chunks, text_parts, waits, audio_queue,
                  text_queue, event_queue, uuids, outbound, utterance, nbytes,
                  nchunks, turn_log, model_events >>

AdapterNext ==
  \/ Next
  \/ AdapterEndSession

\* the session of Spec with a caller of end_session
AdapterSpec == Init /\ [][AdapterNext]_vars

\* ---------------------------------------------------------- the gateway
\* everything but the connection's part of the state
session == << pc, audio_buffer, has_audio, is_listening, watchdog,
              pcm_audio, audio_chunks, text_parts, waits, nova, audio_queue,
              text_queue, event_queue, uuids, stream, outbound, utterance,
              nbytes, nchunks, turn_log, faults, model_events >>

\* The authToken values a client may send: none, a JWT that Cognito's keys
\* verify, one they do not, and the two forms the test fallback accepts.
Tokens == {"", "jwt-good", "jwt-bad", "test-user", "mock-token-for-testing"}

NoUser == "None"

\* CognitoTokenValidator.validate_token: the user of a token whose
\* signature and claims verify, nothing for every other token
validate_token(token) == IF token = "jwt-good" THEN "user" ELSE NoUser

\* token == "mock-token-for-testing" or token.startswith("test-")
IsTestToken(token) == token \in {"mock-token-for-testing", "test-user"}

\* verify_auth_token, with validator_raises telling whether get_validator
\* or the validator raised
verify_auth_token(token, validator_raises) ==
  IF token = "" THEN NoUser
  ELSE IF validator_raises
       THEN (IF IsTestToken(token) THEN "test_user" ELSE NoUser)
  ELSE IF validate_token(token) # NoUser THEN validate_token(token)
  ELSE IF IsTestToken(token) THEN "test_user"
  ELSE NoUser

\* websocket_endpoint, lines 405-422: accept, register, confirm, start the
\* heartbeat.  accept() or the first send_json may raise.
Accept ==
  /\ handler = "new"
  /\ \E outcome \in {"ok", "accept_raises", "send_raises"} :
       /\ active_connections' = IF outcome = "accept_raises"
                                THEN active_connections
                                ELSE active_connections \cup {connection_id}
       /\ outbound' = IF outcome = "ok"
                      THEN Append(outbound, Message("connection_established", << >>, 0))
                      ELSE outbound
       /\ heartbeat_task' = IF outcome = "ok" THEN "running" ELSE heartbeat_task
       /\ handler' = IF outcome = "ok" THEN "loop" ELSE "finally"
  /\ UNCHANGED << active_sessions, session_id, now, inits >>
  /\ UNCHANGED << pc, audio_buffer, has_audio, is_listening, watchdog,
                  pcm_audio, audio_chunks, text_parts, waits, nova, audio_queue,
                  text_queue, event_queue, uuids, stream, utterance,
                  nbytes, nchunks, turn_log, faults, model_events >>

\* The branch for a failed verification without its reply.
AuthenticationFailed_silent ==
  /\ UNCHANGED << outbound, active_sessions, session_id, now >>
  /\ UNCHANGED << audio_buffer, has_audio, is_listening, watchdog,
                  nova, audio_queue, text_queue, event_queue, utterance >>

\* websocket_endpoint, lines 443-448: verification gave no user
AuthenticationFailed ==
  /\ outbound' = Append(outbound,
                        Message("error", << "Authentication failed" >>, 0))
  /\ UNCHANGED << active_sessions, session_id, now >>
  /\ UNCHANGED << audio_buffer, has_audio, is_listening, watchdog,
                  nova, audio_queue, text_queue, event_queue, utterance >>

\* websocket_endpoint, lines 438-471: an initialize_session message.
\* redis_pool is None.  Sends to the client succeed once the connection is
\* established.  A second successful initialize_session rebinds
\* nova_session: the handler cannot reach the earlier NovaSession any more,
\* and of that session the state keeps only its entry in active_sessions
\* and the events it sent.
InitializeSession(token, validator_raises) ==
  /\ handler = "loop"
  /\ pc = "idle"
  /\ inits < MaxInits
  /\ IF inits = 0 THEN TRUE ELSE Spent < MaxEnv
  /\ inits' = inits + 1
  /\ IF verify_auth_token(token, validator_raises) = NoUser
     THEN AuthenticationFailed
     ELSE \E ms \in {now, now + 1} :
            \* session_{int(time.time() * 1000)} and a new NovaSession
            /\ now' = ms
            /\ session_id' = ms
            /\ active_sessions' = active_sessions \cup {ms}
            /\ outbound' = Append(outbound,
                                  Message("session_initialized", << ms >>, 0))
            /\ audio_buffer' = << >>
            /\ has_audio' = FALSE
            /\ is_listening' = FALSE
            /\ watchdog' = "none"
            /\ nova' = NewClient
            /\ audio_queue' = << >>
            /\ text_queue' = << >>
            /\ event_queue' = << >>
            /\ utterance' = << >>
  /\ UNCHANGED << handler, active_connections, heartbeat_task >>
  /\ UNCHANGED << pc, pcm_audio, audio_chunks, text_parts, waits, uuids,
                  stream, nbytes, nchunks, turn_log, faults, model_events >>

\* The end_session branch without its reply.
EndSession_silent ==
  /\ handler = "loop"
  /\ pc = "idle"
  /\ active_sessions' = active_sessions \ {session_id}
  /\ handler' = "ended"
  /\ UNCHANGED << active_connections, session_id, heartbeat_task, now, inits >>
  /\ UNCHANGED session

\* websocket_endpoint, lines 540-553: an end_session message
EndSession ==
  /\ handler = "loop"
  /\ pc = "idle"
  /\ IF session_id # None
     THEN /\ active_sessions' = active_sessions \ {session_id}
          /\ outbound' = Append(outbound,
                                Message("session_ended", << session_id >>, 0))
     ELSE UNCHANGED << active_sessions, outbound >>
  \* break: the finally block runs next
  /\ handler' = "ended"
  /\ UNCHANGED << active_connections, session_id, heartbeat_task, now, inits >>
  /\ UNCHANGED << pc, audio_buffer, has_audio, is_listening, watchdog,
                  pcm_audio, audio_chunks, text_parts, waits, nova, audio_queue,
                  text_queue, event_queue, uuids, stream, utterance,
                  nbytes, nchunks, turn_log, faults, model_events >>

\* the ways the message loop ends without an end_session message
Exits == {"timeout", "disconnect", "exception"}

\* websocket_endpoint, lines 555-566: receive_json times out, the client
\* disconnects, or sending the error message of line 563 raises
Exit ==
  /\ handler = "loop"
  /\ pc = "idle"
  /\ \E reason \in Exits : handler' = "finally"
  /\ UNCHANGED << active_connections, active_sessions, session_id,
                  heartbeat_task, now, inits >>
  /\ UNCHANGED session

\* The finally block with the two registry deletions unguarded: deleting a
\* key that is no longer there raises KeyError.
Finally_unguarded_delete ==
  /\ handler \in {"ended", "finally"}
  /\ IF heartbeat_task = "unbound"
        \/ connection_id \notin active_connections
        \/ (session_id # None /\ session_id \notin active_sessions)
     THEN /\ handler' = "raised"
          /\ UNCHANGED << active_connections, active_sessions, heartbeat_task >>
     ELSE /\ handler' = "closed"
          /\ heartbeat_task' = "cancelled"
          /\ active_connections' = active_connections \ {connection_id}
          /\ active_sessions' = active_sessions \ {session_id}
  /\ UNCHANGED << session_id, now, inits >>
  /\ UNCHANGED session

\* websocket_endpoint, lines 568-580, entered after the break of the
\* end_session branch ("ended") or on any other way out ("finally").
\* heartbeat_task is unbound when the handler left before line 420: line 570
\* raises and the rest is skipped.
Finally ==
  /\ handler \in {"ended", "finally"}
  /\ IF heartbeat_task = "unbound"
     THEN /\ handler' = "raised"
          /\ UNCHANGED << active_connections, active_sessions, heartbeat_task >>
     ELSE /\ handler' = "closed"
          /\ heartbeat_task' = "cancelled"
          /\ active_connections' = active_connections \ {connection_id}
          /\ active_sessions' =
               IF session_id # None /\ session_id \in active_sessions
               THEN active_sessions \ {session_id}
               ELSE active_sessions
  /\ UNCHANGED << session_id, now, inits >>
  /\ UNCHANGED session

\* The state when websocket_endpoint is entered.
GatewayInit ==
  /\ handler = "new"
  /\ active_connections = {}
  /\ active_sessions = {}
  /\ session_id = None
  /\ heartbeat_task = "unbound"
  /\ now = 1
  /\ inits = 0
  /\ NewSession
  /\ uuids = 0
  /\ stream = << >>
  /\ outbound = << >>
  /\ nbytes = 0
  /\ nchunks = 0
  /\ turn_log = << >>
  /\ faults = 0
  /\ model_events = 0

GatewayNext ==
  \/ Accept
  \/ \E token \in Tokens, validator_raises \in BOOLEAN :
       InitializeSession(token, validator_raises)
  \/ EndSession
  \/ Exit
  \/ Finally
  \/ Next

GatewaySpec == GatewayInit /\ [][GatewayNext]_vars

\* ------------------------------------------------- reading the histories
IsAudioStart(e) == e.ev = "contentStart" /\ e.kind = "AUDIO"

\* the events the turn sent, and those sent since the turn before it
TurnEvents(t) == SubSeq(stream, t.from, t.to)
Window(t) == SubSeq(stream, t.since, t.to)

\* the bytes carried by the audioInput events of a sequence, in send order
RECURSIVE AudioBytes(_)
AudioBytes(events) ==
  IF events = << >> THEN << >>
  ELSE (IF Head(events).ev = "audioInput"
        THEN b64decode(Head(events).data) ELSE << >>)
       \o AudioBytes(Tail(events))

Turns == 1..Len(turn_log)
\* the turns whose sends all succeeded: opened, sent and closed
SentTurns == { i \in Turns : turn_log[i].sent }
\* the turns that also finished their drain
CompletedTurns == { i \in SentTurns : turn_log[i].done }

WatchdogFinalizes ==
  is_listening /\ ~is_listening' /\ turn_log' = turn_log

\* C2: when the watchdog finalizes a turn on inactivity, without an
\* endOfUtterance, the audio buffer is empty afterwards (its audio was
\* flushed to the model).
C2_WatchdogFlushesBuffer ==
  [][WatchdogFinalizes => audio_buffer' = << >>]_vars

\* ------------------------------------------------------------------- C3
\* C3: at most one audio content is open at any time: between any two
\* audio contentStart events on the stream there is a contentEnd of the
\* first one's content.
C3_AtMostOneOpen ==
  \A i, j \in 1..Len(stream) :
     (i < j /\ IsAudioStart(stream[i]) /\ IsAudioStart(stream[j]))
       => \E k \in (i + 1)..(j - 1) :
             stream[k] = ContentEnd(stream[i].prompt, stream[i].content)

\* start_audio_input ran with a content still open: the turn's first event
\* is the contentEnd that forces it closed, and its contentStart follows
C3_Witness ==
  \E i \in Turns :
     LET t == turn_log[i]
     IN  /\ t.from < t.to
         /\ t.to <= Len(stream)
         /\ stream[t.from].ev = "contentEnd"
         /\ \E k \in (t.from + 1)..t.to : IsAudioStart(stream[k])

\* ------------------------------------------------------------------- C4
\* C4: after every completed turn the content start counter equals the
\* content end counter and no content is open.
C4_CountersBalanced ==
  (pc = "idle" /\ CurrentTurn \in CompletedTurns)
    => /\ nova.content_starts = nova.content_ends
       /\ ~nova.content_open

\* ------------------------------------------------------------------- C5
PromptOpenAt(k, p) ==
  \E i \in 1..(k - 1) :
     /\ stream[i] = PromptStart(p)
     /\ \A j \in (i + 1)..(k - 1) : stream[j] # PromptEnd(p)

CountEv(k, ev) == Cardinality({ i \in 1..k : stream[i].ev = ev })

\* C5: every audio contentStart is sent while the prompt it names is open
\* (its promptStart was sent and no promptEnd for it since), and at no
\* point were more promptEnd than promptStart events sent.
C5_PromptBracketsEveryTurn ==
  /\ \A k \in 1..Len(stream) :
        IsAudioStart(stream[k]) => PromptOpenAt(k, stream[k].prompt)
  /\ \A k \in 0..Len(stream) :
        CountEv(k, "promptEnd") <= CountEv(k, "promptStart")

\* ------------------------------------------------------------------- C6
\* stream[k] lies in the open content it names: after the audio
\* contentStart of that content and before any contentEnd of it
InOpenContent(k) ==
  \E i \in 1..(k - 1) :
     /\ stream[i] = ContentStart(stream[k].prompt, stream[k].content, "AUDIO")
     /\ \A j \in (i + 1)..(k - 1) :
           stream[j] # ContentEnd(stream[k].prompt, stream[k].content)

\* C6: send_audio_chunk sends nothing when no content is open or the
\* stream is inactive, and every audioInput event on the stream lies
\* between the audio contentStart and the contentEnd of its contentName.
C6_AudioOnlyInOpenContent ==
  /\ (~nova.content_open \/ ~nova.is_active)
       => send_audio_chunk(Machine(NoFault), << 1 >>).stream = stream
  /\ \A k \in 1..Len(stream) :
        stream[k].ev = "audioInput" => InOpenContent(k)

\* audio was forwarded in a turn that had first to force a content closed,
\* and the adapter is again in a state where send_audio_chunk must refuse
C6_Witness ==
  /\ ~nova.content_open
  /\ nova.is_active
  /\ \E i \in SentTurns :
        LET t == turn_log[i]
        IN  /\ stream[t.from].ev = "contentEnd"
            /\ \E k \in t.from..t.to : stream[k].ev = "audioInput"

\* ------------------------------------------------------------------- C7
\* the positions in a sequence of events that satisfy a test
Positions(events, Test(_)) == { k \in 1..Len(events) : Test(events[k]) }

AccumulatedAudio ==
  audio_chunks \o (IF audio_queue' = << >> THEN audio_queue ELSE << >>)
AccumulatedText ==
  text_parts \o (IF text_queue' = << >> THEN AssistantTexts(text_queue) ELSE << >>)

MessagesOf(out, i) == SelectSeq(out, LAMBDA m : m.turn = i)

\* C8: when the drain of a turn ends with no audio and no text accumulated,
\* the result has success = false and the client is sent exactly one error
\* message for the turn and nothing else.
C8_EmptyDrainOneError ==
  [][ ( /\ pc = "drain" /\ pc' = "idle"
        /\ Flatten(AccumulatedAudio) = << >>
        /\ Join(AccumulatedText) = << >> )
      => /\ ~turn_log'[CurrentTurn].result.success
         /\ Len(MessagesOf(outbound', CurrentTurn)) = 1
         /\ MessagesOf(outbound', CurrentTurn)[1].type = "error" ]_vars

\* a drain ended with nothing accumulated although the model had emitted
\* events, and its turn returned
C8_Witness ==
  /\ pc = "idle"
  /\ CurrentTurn \in CompletedTurns
  /\ ~turn_log[CurrentTurn].result.success
  /\ model_events > 0

\* ------------------------------------------------------------------- C9
Types(msgs) == [k \in 1..Len(msgs) |-> msgs[k].type]

\* C9: for every turn whose result has success = true the messages sent
\* for it are, in order: audio_output iff the audio is not empty,
\* transcript iff the text is not empty, then inference_complete; and no
\* error.
C9_SuccessMessagesInOrder ==
  \A i \in Turns :
     (turn_log[i].done /\ turn_log[i].result.success)
       => Types(MessagesOf(outbound, i))
            = (IF turn_log[i].result.audio # << >>
               THEN << "audio_output" >> ELSE << >>)
              \o (IF turn_log[i].result.text # << >>
                  THEN << "transcript" >> ELSE << >>)
              \o << "inference_complete" >>

\* a successful turn with audio and text: all three messages were sent
C9_Witness ==
  \E i \in Turns :
     /\ turn_log[i].done /\ turn_log[i].result.success
     /\ turn_log[i].result.audio # << >>
     /\ turn_log[i].result.text # << >>
     /\ Len(MessagesOf(outbound, i)) = 3

\* ------------------------------------------------------------------ C10
\* C10: a text that contains the interruption marker never appears in the
\* text a turn returns.
C10_MarkerNotInTranscript ==
  \A i \in Turns :
     turn_log[i].done => ~ContainsMarker(turn_log[i].result.text)

\* ------------------------------------------------------------------ C11
\* the drain takes a completion signal from the control queue in this step
TakesCompletion ==
  /\ event_queue # << >>
  /\ Head(event_queue).type = "completion"
  /\ event_queue' = Tail(event_queue)

\* C11: the drain of a turn returns only when it has taken a completion
\* signal from the control queue or its timeout has elapsed.
C11_DrainEndsOnCompletionOrTimeout ==
  [][ (pc = "drain" /\ pc' = "idle") => (TakesCompletion \/ DrainTimeout) ]_vars

\* ------------------------------------------------------------------ C12
\* the fragments of a queue that the reader queued before the model's
\* event number n (an audio fragment is the number of its event)
AudioBefore(queue, n) == SelectSeq(queue, LAMBDA chunk : chunk[1] < n)
TextBefore(queue, n) == SelectSeq(queue, LAMBDA item : item.seq < n)

\* C12: when the drain ends on a completion signal, the audio it returns
\* is the concatenation, in queue order, of every audio fragment the reader
\* queued for the turn before that signal, and the text is the space-joined
\* sequence of the text fragments queued before it.
C12_NothingDroppedBeforeCompletion ==
  [][ (pc = "drain" /\ pc' = "idle" /\ TakesCompletion)
      => LET n == Head(event_queue).seq
             r == turn_log'[CurrentTurn].result
         IN  /\ r.audio = Flatten(audio_chunks \o AudioBefore(audio_queue, n))
             /\ r.text = Join(text_parts
                              \o AssistantTexts(TextBefore(text_queue, n))) ]_vars

\* ------------------------------------------------------ the connection
\* websocket_endpoint has returned or raised
Exited == handler \in {"closed", "raised"}

\* C13: after the connection handler has returned or raised, on whichever
\* exit path, connection_id is not in active_connections.
C13_ConnectionRemoved ==
  Exited => connection_id \notin active_connections

\* C14: once the connection handler has exited by end_session, disconnect
\* or idle timeout, no session created on the connection (the model has no
\* other) remains in active_sessions.
C14_SessionsDestroyed ==
  handler = "closed" => active_sessions = {}

\* the session's model stream was opened: sessionStart went out on it
StreamOpened == \E i \in 1..Len(stream) : stream[i].ev = "sessionStart"

SessionEndSent == \E i \in 1..Len(stream) : stream[i].ev = "sessionEnd"

\* C15: after the connection handler has exited, the adapter of a session
\* whose model stream was opened is inactive and a sessionEnd event has
\* been sent on the stream.
C15_AdapterEnded ==
  (Exited /\ StreamOpened) => (~nova.is_active /\ SessionEndSent)

\* the inactivity watchdog task has not finished
WatchdogLive == watchdog \in {"sleeping", "send_content_end", "send_prompt_end"}

\* the stream reader task has not finished
ReaderLive == nova.response_task = "running"

\* C16: once the connection handler has exited, neither the session's
\* inactivity watchdog task nor its stream-reader task is still live.
C16_TasksCancelled ==
  Exited => (~WatchdogLive /\ ~ReaderLive)

\* the number of session_ended messages sent to the client
SessionEnded ==
  Cardinality({ i \in 1..Len(outbound) : outbound[i].type = "session_ended" })

\* the finally block runs after the end_session branch has torn the
\* session down
SecondTeardown == handler = "ended" /\ handler' # "ended"

\* C17 as stated: the second teardown raises no error, leaves both
\* registries unchanged, and at most one session_ended message is sent.
C17_SecondTeardownChangesNothing ==
  [][ SecondTeardown =>
        /\ handler' = "closed"
        /\ active_sessions' = active_sessions
        /\ active_connections' = active_connections
        /\ SessionEnded' <= 1 ]_vars

\* C17, amended: the second teardown raises no error, leaves the session
\* registry unchanged and sends nothing, so that at most one session_ended
\* message is sent in total; it removes the connection's own entry from the
\* connection registry.
C17_TeardownIdempotent ==
  [][ SecondTeardown =>
        /\ handler' = "closed"
        /\ active_sessions' = active_sessions
        /\ active_connections' = active_connections \ {connection_id}
        /\ outbound' = outbound
        /\ SessionEnded' <= 1 ]_vars

\* both teardowns of an initialized session have run
C17_Witness ==
  /\ handler = "closed"
  /\ session_id # None
  /\ SessionEnded = 1
  /\ session_id \notin active_sessions

\* the end_session branch runs for a session whose audio buffer is empty
\* (before initialize_session there is no session and no buffer)
EndSessionOnEmptyBuffer ==
  /\ handler = "loop"
  /\ handler' = "ended"
  /\ session_id # None
  /\ audio_buffer = << >>

\* C18: end_session on an empty audio buffer opens no turn (no event is
\* sent to the model), and session_ended, with the session's id, is the one
\* message sent to the client in response.
C18_OnlySessionEnded ==
  [][ EndSessionOnEmptyBuffer =>
        /\ stream' = stream
        /\ outbound' = Append(outbound,
                              Message("session_ended", << session_id >>, 0)) ]_vars

\* end_session arrived on an empty buffer after the session had opened its
\* model stream
C18_Witness ==
  /\ handler = "ended"
  /\ audio_buffer = << >>
  /\ StreamOpened
  /\ SessionEnded = 1

\* the number of session_initialized messages sent to the client
SessionInitialized ==
  Cardinality({ i \in 1..Len(outbound) : outbound[i].type = "session_initialized" })

\* C19: when identity verification yields no user for the token of an
\* initialize_session message, the client receives an error message and no
\* session_initialized message, no session is created, active_sessions is
\* unchanged, and the handler stays in its message loop.
C19_AuthFailureKeepsConnection ==
  [][ \A token \in Tokens, validator_raises \in BOOLEAN :
        ( /\ verify_auth_token(token, validator_raises) = NoUser
          /\ InitializeSession(token, validator_raises) )
        => /\ outbound' = Append(outbound,
                                 Message("error", << "Authentication failed" >>, 0))
           /\ active_sessions' = active_sessions
           /\ session_id' = session_id
           /\ nova' = nova
           /\ handler' = "loop" ]_vars

\* a verification failed on a connection that has no session, and the
\* handler is back in its loop
C19_Witness ==
  /\ handler = "loop"
  /\ outbound # << >>
  /\ outbound[Len(outbound)].type = "error"
  /\ outbound[Len(outbound)].payload = << "Authentication failed" >>
  /\ SessionInitialized = 0
  /\ active_sessions = {}
  /\ inits = 1

\* C20: for every token that the identity validator rejects (validate_token
\* returns nothing or raises), initialize_session creates no session and
\* sends no session_initialized message.
C20_SessionOnlyAfterVerification ==
  [][ \A token \in Tokens, validator_raises \in BOOLEAN :
        ( /\ IF validator_raises THEN TRUE ELSE validate_token(token) = NoUser
          /\ InitializeSession(token, validator_raises) )
        => /\ active_sessions' = active_sessions
           /\ session_id' = session_id
           /\ SessionInitialized' = SessionInitialized ]_vars

\* ----------------------------------------------------------- the adapter
\* the awaits of a start_session that nothing interrupts
StartAwaits == Awaits(start_session(Machine(NoFault)))

\* a start_session of this adapter has failed and none has succeeded since
StartFailed == nova.session_id # None /\ ~nova.is_active

\* C21: start_session never raises.  Wherever it may be called (the adapter
\* is inactive) and whichever of its awaits fails, it returns false, leaves
\* is_active false and spawns no reader; it returns true only when no step
\* failed.  An adapter whose start failed has no reader task.
C21_StartSessionReturnsFalse ==
  /\ ~nova.is_active =>
       \A fuel \in 0..NoFault :
         LET X == start_session(Machine(fuel))
         IN  /\ ~X.raised
             /\ X.ok <=> (fuel >= StartAwaits)
             /\ ~X.ok => /\ ~X.nova.is_active
                         /\ X.nova.response_task = nova.response_task
                         /\ X.nova.response_task # "running"
  /\ StartFailed => nova.response_task = "none"

\* a start_session failed after the stream was opened and some of the setup
\* events were sent, and process_with_nova has returned
C21_Witness ==
  /\ StartFailed
  /\ stream # << >>
  /\ pc = "idle"
  /\ turn_log # << >>
  /\ turn_log[CurrentTurn].done
  /\ ~turn_log[CurrentTurn].result.success

\* the five events of the setup, as start_session sends them
SetupEvents ==
  << SessionStart,
     PromptStart(nova.prompt_name),
     ContentStart(nova.prompt_name, nova.content_name, "TEXT"),
     TextInput(nova.prompt_name, nova.content_name),
     ContentEnd(nova.prompt_name, nova.content_name) >>

\* the stream begins with the setup
SetupSent ==
  /\ Len(stream) >= Len(SetupEvents)
  /\ SubSeq(stream, 1, Len(SetupEvents)) = SetupEvents

\* C22: once start_session has succeeded (the reader exists only then) the
\* stream begins with sessionStart, promptStart, contentStart(TEXT),
\* textInput, contentEnd, in this order; and every audio contentStart on the
\* stream comes after these five.
C22_SetupFirst ==
  /\ nova.response_task # "none" => SetupSent
  /\ \A i \in 1..Len(stream) :
       IsAudioStart(stream[i]) => (SetupSent /\ i > Len(SetupEvents))

\* a session was started and a turn has opened its audio content
C22_Witness ==
  /\ nova.response_task = "running"
  /\ SetupSent
  /\ \E i \in 1..Len(stream) : IsAudioStart(stream[i])

\* what a further call of end_session, with nothing failing, would make of
\* the adapter as the step leaves it
SecondEndSession ==
  end_session([nova |-> nova', stream |-> stream', uuids |-> uuids',
               fuel |-> NoFault, raised |-> FALSE, ok |-> TRUE])

\* C23: a call of end_session on an active adapter emits promptEnd then
\* sessionEnd and cancels the reader; after it has returned the adapter is
\* inactive, and a second call emits no event and changes no state.
C23_EndSessionIdempotent ==
  [][ AdapterEndSession =>
        /\ stream' = stream \o << PromptEnd(nova.prompt_name), SessionEnd >>
        /\ ~nova'.is_active
        /\ nova'.response_task # "running"
        /\ SecondEndSession.stream = stream'
        /\ SecondEndSession.nova = nova' ]_vars

\* C24: once the reader has terminated on a transport error, the adapter is
\* inactive.
C24_DeadReaderMarksInactive ==
  nova.response_task = "dead" => ~nova.is_active

\* C25: the drain never blocks for ever: a process_audio_simple that has
\* reached its collect loop returns (the message loop gets back to idle),
\* whatever the model emits and whether or not the reader is alive.
C25_ProcessReturns ==
  (pc = "drain") ~> (pc = "idle")

\* a drain ended on its timeout with nothing collected, the reader dead
C25_Witness ==
  /\ pc = "idle"
  /\ turn_log # << >>
  /\ turn_log[CurrentTurn].sent
  /\ turn_log[CurrentTurn].done
  /\ ~turn_log[CurrentTurn].result.success
  /\ nova.response_task = "dead"

\* ------------------------------------------------------------ later turns
\* turn i was sent whole and its drain ended with nothing from the model
\* (process_with_nova reports this result, which has no metadata, as
\* "Must use bidirectional_stream mode")
UpstreamTimeout(i) ==
  /\ i \in CompletedTurns
  /\ ~turn_log[i].result.success

\* C26: after a turn that ended with an upstream timeout the session is
\* usable.  When the turn has returned, the content is closed and the
\* adapter is active; the next utterance is not refused: unless the
\* transport fails it is sent as a new turn, with a content of its own that
\* carries the utterance's audio, and what its drain returns is dispatched
\* to the client as for any turn.
C26_UsableAfterTimeout ==
  /\ (pc = "idle" /\ turn_log # << >> /\ UpstreamTimeout(CurrentTurn))
       => (~nova.content_open /\ nova.is_active)
  /\ \A i \in Turns :
       (UpstreamTimeout(i) /\ i + 1 \in Turns)
         => LET t == turn_log[i + 1]
            IN  /\ faults = 0 => t.sent
                /\ t.sent =>
                     /\ \E k \in t.from..t.to :
                          /\ IsAudioStart(stream[k])
                          /\ \A j \in 1..(k - 1) :
                               stream[j].content # stream[k].content
                     /\ AudioBytes(TurnEvents(t)) = t.audio
                /\ t.done => MessagesOf(outbound, i + 1) = Dispatch(t.result, i + 1)

\* a turn timed out and the next one was answered by the model
C26_Witness ==
  \E i \in Turns :
     /\ UpstreamTimeout(i)
     /\ i + 1 \in CompletedTurns
     /\ turn_log[i + 1].result.success
     /\ turn_log[i + 1].result.audio # << >>

\* a transport failure hits the adapter inside process_audio_simple: at
\* the stream's opening or a setup send, or at a send of the turn
\* (contentStart, an audio chunk, contentEnd, promptEnd)
AdapterFailsInTurn ==
  /\ faults' = faults + 1
  /\ turn_log' # turn_log

\* C27: a failure inside the adapter during a turn does not reach the
\* message loop as an exception: process_with_nova returns success=false,
\* exactly one message, an error, is sent for the turn, and the handler is
\* back in its loop, ready for the next message.
C27_AdapterFailureContained ==
  [][ AdapterFailsInTurn =>
        LET i == Len(turn_log')
        IN  /\ handler' = "loop"
            /\ pc' = "idle"
            /\ turn_log'[i].done
            /\ ~turn_log'[i].result.success
            /\ Len(outbound') = Len(outbound) + 1
            /\ SubSeq(outbound', 1, Len(outbound)) = outbound
            /\ outbound'[Len(outbound')].type = "error"
            /\ outbound'[Len(outbound')].turn = i ]_vars

\* a turn failed in the adapter after the session had started, and the
\* connection went on to complete the next turn
C27_Witness ==
  \E i \in Turns :
     /\ turn_log[i].done
     /\ ~turn_log[i].sent
     /\ nova.is_active
     /\ i + 1 \in CompletedTurns
     /\ turn_log[i + 1].result.success

\* ------------------------------------------------------ the audio buffer
\* the message loop is ready for a message of a session whose audio buffer
\* is empty
IdleWithEmptyBuffer ==
  /\ handler = "loop"
  /\ session_id # None
  /\ pc = "idle"
  /\ audio_buffer = << >>

\* C28: an audio_input message with endOfUtterance and no audio that
\* arrives while the audio buffer is empty is handled and changes nothing:
\* no turn is opened, no event is sent to the model, no message is sent to
\* the client, and buffer, listening flag, watchdog and adapter stay as
\* they are.
C28_EmptyEndOfUtteranceNoOp ==
  IdleWithEmptyBuffer =>
    /\ ENABLED AudioInput(0, TRUE)
    /\ ~ENABLED << AudioInput(0, TRUE) >>_<< turn_log, stream, outbound,
                                             audio_buffer, is_listening,
                                             watchdog, nova, pc >>

\* the message can arrive between two turns of a started session
C28_Witness ==
  /\ IdleWithEmptyBuffer
  /\ ENABLED AudioInput(0, TRUE)
  /\ nova.is_active
  /\ turn_log # << >>
  /\ Len(turn_log) < MaxTurns

\* ----------------------------------------------------- across the turns
IsPrefix(s, t) == Len(s) <= Len(t) /\ s = SubSeq(t, 1, Len(s))

Range(s) == { s[k] : k \in 1..Len(s) }

\* Turn j called start_session (its log entry begins at the first event of
\* a stream).  The turns before it found the adapter inactive too: their
\* start_session failed, they sent no audio, and what they sent was on a
\* stream that the new one has replaced.
StartedSession(j) == turn_log[j].since = 1

\* the bytes turn i forwarded to the model
Forwarded(i) ==
  IF \E j \in Turns : j > i /\ StartedSession(j)
  THEN << >>
  ELSE AudioBytes(TurnEvents(turn_log[i]))

\* What turn i forwards comes from its own utterance, the bytes the client
\* sent between the turn boundary before it and its endOfUtterance, and
\* every byte that came later, in whichever turn, was sent by the client
\* later and is none of the bytes of turn i.
OwnBytesOnly ==
  /\ \A i \in Turns :
       /\ turn_log[i].audio = LastN(turn_log[i].utt, BUFFER_MAX_SIZE)
       /\ IsPrefix(Forwarded(i), turn_log[i].audio)
  /\ \A i \in Turns, j \in Turns :
       i < j => \A a \in Range(turn_log[i].utt), b \in Range(turn_log[j].utt) :
                  a < b

NextChunk(n) == [k \in 1..n |-> nbytes + k]

\* C30: the audio buffer is bounded.  The buffer is never longer than
\* BUFFER_MAX_SIZE and holds the most recent BUFFER_MAX_SIZE bytes (all of
\* them when they are fewer) of the chunks added since it was last cleared;
\* add_audio of a further chunk, of whatever size, keeps this so; and what
\* a turn takes out of the buffer is bounded in the same way.
C30_BufferBounded ==
  /\ Len(audio_buffer) <= BUFFER_MAX_SIZE
  /\ audio_buffer = LastN(utterance, BUFFER_MAX_SIZE)
  /\ \A n \in 0..(BUFFER_MAX_SIZE + 1) :
       LET added == add_audio(audio_buffer, NextChunk(n))
       IN  /\ Len(added) = Min(BUFFER_MAX_SIZE, Len(utterance) + n)
           /\ added = LastN(utterance \o NextChunk(n), BUFFER_MAX_SIZE)
  /\ \A i \in Turns :
       /\ Len(turn_log[i].audio) = Min(BUFFER_MAX_SIZE, Len(turn_log[i].utt))
       /\ turn_log[i].audio = LastN(turn_log[i].utt, BUFFER_MAX_SIZE)

\* the chunks added since the last clear exceeded the cap, and the turn
\* went on with the most recent bytes
C30_Witness ==
  \E i \in Turns :
     /\ Len(turn_log[i].utt) > BUFFER_MAX_SIZE
     /\ Len(turn_log[i].audio) = BUFFER_MAX_SIZE
     /\ turn_log[i].done

\* ------------------------------------------------------- closing a turn
\* stream[k] is a contentEnd that end_audio_input sent (the contentEnd of
\* the setup is the one that follows the textInput)
IsAudioEnd(k) ==
  /\ stream[k].ev = "contentEnd"
  /\ ~(k > 1 /\ stream[k - 1].ev = "textInput")

\* C31: every contentEnd that end_audio_input sends is followed on the
\* stream, with no event in between, by the promptEnd of the same prompt:
\* whoever performs the close, and also when a send fails or the closing
\* task is cancelled.  While a contentEnd is the last event on the stream,
\* the close that sent it is still in progress.
C31_ContentEndPromptEndPaired ==
  \A k \in 1..Len(stream) :
     IsAudioEnd(k) =>
       IF k < Len(stream)
       THEN stream[k + 1] = PromptEnd(stream[k].prompt)
       ELSE watchdog = "send_prompt_end"

\* what a call of end_audio_input, with nothing failing, makes of the
\* adapter as it is
ClosedAgain == end_audio_input(Machine(NoFault))

\* C32: closing a turn is a no-op when no turn is open.  In every state of
\* an active adapter with content_open false (end_audio_input is called on
\* an active adapter only: the watchdog tests is_active and
\* process_audio_simple starts the session first), a call of
\* end_audio_input sends no event and leaves content_ends, prompt_ends and
\* the audio content's identifier as they are; hence every contentEnd that
\* end_audio_input sent names a content whose audio contentStart was sent
\* before it and that was not ended in between.
C32_CloseTurnNoOpWhenClosed ==
  /\ (nova.is_active /\ ~nova.content_open) =>
       /\ ClosedAgain.stream = stream
       /\ ClosedAgain.nova.content_ends = nova.content_ends
       /\ ClosedAgain.nova.prompt_ends = nova.prompt_ends
       /\ ClosedAgain.nova.audio_content_name = nova.audio_content_name
  /\ \A k \in 1..Len(stream) : IsAudioEnd(k) => InOpenContent(k)

\* ------------------------------------------------- the background tasks
\* start_listening creates a watchdog task in this step
WatchdogCreated == watchdog' = "sleeping" /\ watchdog # "sleeping"

\* start_session creates a reader task in this step
ReaderCreated == nova'.response_task = "running" /\ nova.response_task # "running"

\* C33: a session has at most one live watchdog task and at most one live
\* reader task (a task is created only when the one before it is no longer
\* live), over any sequence of chunks, watchdog expiries and turns; and
\* whenever is_listening is true a watchdog task is live.
C33_OneWatchdogOneReader ==
  /\ [](is_listening => WatchdogLive)
  /\ [][WatchdogCreated => ~WatchdogLive]_vars
  /\ [][ReaderCreated => ~ReaderLive]_vars

\* ------------------------------------------- the watchdog and the turn
\* a step of the watchdog task that sends, or tries to send, an event
WatchdogSends == WatchdogContentEnd \/ WatchdogPromptEnd

\* process_with_nova is running: from its stop_listening to its return
Finalizing == pc # "idle"

\* The events of a sent turn i, from its audio contentStart on, are the
\* contentStart, the audioInput events of the same content, its contentEnd
\* and the promptEnd, and nothing else.
OwnSequence(i) ==
  LET E == TurnEvents(turn_log[i])
      starts == Positions(E, IsAudioStart)
  IN  /\ Cardinality(starts) = 1
      /\ \A o \in starts :
            /\ Len(E) >= o + 2
            /\ \A k \in (o + 1)..(Len(E) - 2) :
                  /\ E[k].ev = "audioInput"
                  /\ E[k].prompt = E[o].prompt
                  /\ E[k].content = E[o].content
            /\ E[Len(E) - 1] = ContentEnd(E[o].prompt, E[o].content)
            /\ E[Len(E)] = PromptEnd(E[o].prompt)

\* C34: the watchdog never acts on a turn that is being finalized.  From
\* the stop_listening of process_with_nova until the turn's result is
\* returned no watchdog task is live and no step of the watchdog sends an
\* event; while the turn is drained its promptEnd is the last event on the
\* stream; and the events of every sent turn, from its contentStart to its
\* promptEnd, are its own, with no contentEnd or promptEnd of the watchdog
\* among them.
C34_WatchdogKeepsOffTheTurn ==
  /\ [](Finalizing => ~WatchdogLive)
  /\ [][WatchdogSends => (~Finalizing /\ ~Finalizing')]_vars
  /\ [](pc = "drain" => Len(stream) = turn_log[CurrentTurn].to)
  /\ [](\A i \in SentTurns : OwnSequence(i))

\* the endOfUtterance cancelled the watchdog in the middle of a close, with
\* its contentEnd already delivered (the stream has a contentEnd that
\* end_audio_input never counted), and the turn was then sent whole
C34_Witness ==
  /\ pc = "drain"
  /\ turn_log[CurrentTurn].sent
  /\ Cardinality({ k \in 1..Len(stream) : IsAudioEnd(k) }) > nova.content_ends

\* ----------------------------------------------------- the control queue
\* the collect loop of process_audio_simple is entered in this step
DrainBegins == pc # "drain" /\ pc' = "drain"

\* The turn that enters its drain is not the one that started the session:
\* a turn before it ran on this stream, and whatever the reader has queued
\* so far it queued before this turn's audio was sent.
LaterTurn == turn_log'[Len(turn_log')].since # 1

\* the control events that can end a content or a drain
EndSignals == {"completion", "content_end"}

\* C35: a turn's drain is never ended by a control event left over from an
\* earlier turn.  When the drain of a turn begins, the control-event queue
\* holds no completion and no content_end event queued before the turn was
\* sent; the drain reads the queue in order, so it cannot then end on a
\* stale completion and report success=false for a turn whose output comes.
C35_NoStaleControlEvent ==
  [][ (DrainBegins /\ LaterTurn)
      => \A k \in 1..Len(event_queue') :
            event_queue'[k].type \notin EndSignals ]_vars

\* ------------------------------------------------------ the session ids
\* an initialize_session message creates a session in this step
SessionCreated == SessionInitialized' = SessionInitialized + 1

\* C36: session identifiers are unique among live sessions.  The id given
\* to a new session is the id of no session that is in active_sessions, so
\* that registering the new session overwrites no entry and removing it
\* later removes no other session's entry, also when two initialize_session
\* messages are handled at the same clock value.
C36_SessionIdsUnique ==
  [][ SessionCreated => session_id' \notin active_sessions ]_vars

\* ------------------------------------------------ the watchdog's latency
\* One step of the inactivity watchdog: a poll, or a send of its close.
WatchdogStep ==
  \/ WatchdogPoll
  \/ WatchdogContentEnd
  \/ WatchdogPromptEnd

\* The event loop resumes the watchdog task when its sleep of 0.5 s is over
\* and when a send it awaits has returned or raised.
WatchdogFairness == WF_vars(WatchdogStep)

WatchdogSpec == Spec /\ WatchdogFairness

\* a poll of the watchdog has found the inactivity threshold exceeded and
\* the close of the turn is under way
TimeoutSeen == watchdog \in {"send_content_end", "send_prompt_end"}

\* C37: the watchdog bounds the worst-case latency.  Time is not measured:
\* a poll comes every WATCHDOG_POLL_MS and finds the elapsed time on either
\* side of INACTIVITY_THRESHOLD_MS.  Once a poll has found the threshold
\* exceeded for a listening session, is_listening becomes false and the
\* watchdog task terminates; a watchdog that ends from its sleep leaves
\* is_listening false; and there is no watchdog task for a session that
\* has received no audio.
C37_WatchdogBoundsLatency ==
  /\ [](watchdog # "none" => has_audio)
  /\ [][(watchdog = "sleeping" /\ watchdog' = "done") => ~is_listening']_vars
  /\ TimeoutSeen ~> (~is_listening /\ ~WatchdogLive)

====
